---------------------------- MODULE Spec2Model ----------------------------
(***************************************************************************)
(* Model of the count-reconciliation core of src/inventario.py:            *)
(* the shared MySQL store (items_corte, historial_movimientos), the count  *)
(* submission handlers of InventarioApp (_buscar_producto, _pre_save,      *)
(* _mostrar_dialogo_duplicado, _guardar_conteo), and the synchronisation   *)
(* scheduler (_sync_loop, _sync_update, _sync_update_background).          *)
(*                                                                         *)
(* Quantities are DECIMAL(10,2) values and are held as integers counting   *)
(* hundredths (100 = 1.00).  Strings that the code transforms (codes,      *)
(* quantity entries) are sequences of one-character strings.  NULL / None  *)
(* is 0 for ids and timestamps and <<>> for the current code.              *)
(***************************************************************************)
EXTENDS Integers, Sequences, FiniteSets, TLC

VARIABLES
    items,              \* table items_corte, in insertion (id) order
    historial,          \* table historial_movimientos, in insertion order
    reloj,              \* value NOW() returns next
    escritor,           \* per row of items_corte: the instance whose UPDATE last set conteo_fisico (0: none)
    sesion_id,          \* per application instance: self.sesion_id
    equipo_id,          \* self.equipo_id
    filtro_lineas,      \* self.filtro_lineas
    producto_actual,    \* self.producto_actual (codigo, es_nuevo)
    ventana_abierta,    \* self.ventana_abierta
    dlg,                \* the open Toplevel dialog and the values it closed over
    en_novedad,         \* text of the note entry
    aviso,              \* last messagebox shown to the operator
    conflicto,          \* content of the last cross-team conflict prompt
    hilos,              \* running guardar_background threads
    sync_running,       \* self.sync_running
    sync_in_progress,   \* self.sync_in_progress
    sync_counter,       \* self.sync_counter
    loop_pc,            \* position of the _sync_loop thread
    cierre,             \* position of the UI thread in destroy ("no": not called)
    after_cola,         \* _sync_update callbacks queued with after(0, ...)
    pases,              \* running _sync_update_background threads
    kpi,                \* texts of the KPI labels
    data_pendientes,    \* self.data_pendientes
    data_diferencias,   \* self.data_diferencias
    lbl_sync,           \* text of the sync status label
    solicitud,          \* a manual refresh was requested and no pass has read the store since
    vstock,             \* sesion_id held by the open VentanaActualizarStock (0: none open)
    ops                 \* operator actions left in this behaviour

vars == <<items, historial, reloj, escritor, sesion_id, equipo_id, filtro_lineas,
          producto_actual, ventana_abierta, dlg, en_novedad, aviso, conflicto,
          hilos, sync_running, sync_in_progress, sync_counter, loop_pc, cierre,
          after_cola, pases, kpi, data_pendientes, data_diferencias, lbl_sync,
          solicitud, vstock, ops>>

storeVars == <<items, historial, reloj, escritor>>
formVars  == <<producto_actual, ventana_abierta, dlg, en_novedad, aviso, conflicto>>
syncVars  == <<sync_running, sync_in_progress, sync_counter, loop_pc, cierre, after_cola,
               pases, kpi, data_pendientes, data_diferencias, lbl_sync, solicitud>>

---------------------------------------------------------------------------
(* Bounds of the model *)

MaxOps == 4             \* operator actions in one behaviour of Spec
MaxOpsGestion == 4      \* ... of SpecGestion
MaxOpsSync == 3         \* ... of SpecSync
MaxHilos == 2           \* guardar_background threads alive per instance
MaxPases == 2           \* _sync_update_background threads alive per instance
MaxCola == 2            \* queued after(0, _sync_update) callbacks
MaxItemsKpi == 5        \* rows of the stores drawn for the aggregation queries
MaxExceso == 2          \* rows beyond the display limit in the long stores
MaxLenCodigo == 3       \* length of the short texts typed into the code entry
MaxOpsCodigo == 2       \* operator actions in one behaviour of SpecCodigo
MaxOpsValidar == 3      \* ... of SpecValidar

Clientes == {1, 2}      \* application instances sharing the store
Equipos == {1, 2}       \* ids of the active rows of table equipos
Sesiones == {1, 2}      \* ids of the active rows of table sesiones
Lineas == {"L1", "L2"}

(* Program constants *)
MAX_CODIGO == 50
MAX_CANTIDAD == 999999
LIMITE == 100

---------------------------------------------------------------------------
(* Sequence helpers *)

Primeros(s, n) == IF Len(s) <= n THEN s ELSE SubSeq(s, 1, n)

Quitar(s, i) == SubSeq(s, 1, i - 1) \o SubSeq(s, i + 1, Len(s))

---------------------------------------------------------------------------
(* InputValidator *)

\* str.upper() of one character: a string, of two characters for sharp s
Mayus == [ch \in {"a", "b", "A", "B", "S", " ", "ß"} |->
            IF ch = "a" THEN <<"A">> ELSE IF ch = "b" THEN <<"B">>
            ELSE IF ch = "ß" THEN <<"S", "S">> ELSE <<ch>>]

RECURSIVE LStrip(_)
LStrip(s) == IF s # <<>> /\ Head(s) = " " THEN LStrip(Tail(s)) ELSE s

RECURSIVE RStrip(_)
RStrip(s) == IF s # <<>> /\ s[Len(s)] = " " THEN RStrip(SubSeq(s, 1, Len(s) - 1)) ELSE s

Strip(s) == RStrip(LStrip(s))

RECURSIVE Upper(_)
Upper(s) == IF s = <<>> THEN <<>> ELSE Mayus[Head(s)] \o Upper(Tail(s))

\* (variant) validate_codigo testing the length before the upper-casing
validate_codigo_largoAntes(codigo) ==
    LET c == Strip(codigo) IN
    IF c = <<>> THEN [ok |-> FALSE, val |-> <<>>, msg |-> "Codigo vacio"]
    ELSE IF Len(c) > MAX_CODIGO THEN [ok |-> FALSE, val |-> <<>>, msg |-> "Codigo muy largo"]
    ELSE [ok |-> TRUE, val |-> Upper(c), msg |-> ""]

\* validate_codigo: (ok, code or message)
validate_codigo(codigo) ==
    LET c == Upper(Strip(codigo)) IN
    IF c = <<>> THEN [ok |-> FALSE, val |-> <<>>, msg |-> "Codigo vacio"]
    ELSE IF Len(c) > MAX_CODIGO THEN [ok |-> FALSE, val |-> <<>>, msg |-> "Codigo muy largo"]
    ELSE [ok |-> TRUE, val |-> c, msg |-> ""]

Digito == [ch \in {"0", "1", "2", "3", "4", "5", "6", "7", "8", "9"} |->
            CASE ch = "0" -> 0 [] ch = "1" -> 1 [] ch = "2" -> 2 [] ch = "3" -> 3
              [] ch = "4" -> 4 [] ch = "5" -> 5 [] ch = "6" -> 6 [] ch = "7" -> 7
              [] ch = "8" -> 8 [] ch = "9" -> 9]

EsDigitos(s) == \A i \in DOMAIN s : s[i] \in DOMAIN Digito

RECURSIVE ValorDigitos(_)
ValorDigitos(s) ==
    IF s = <<>> THEN 0 ELSE 10 * ValorDigitos(SubSeq(s, 1, Len(s) - 1)) + Digito[s[Len(s)]]

\* str.replace(',', '.')
ReplaceComa(s) == [i \in DOMAIN s |-> IF s[i] = "," THEN "." ELSE s[i]]

\* float(): optional sign, digits with at most one point and at least one
\* digit.  The value is returned in hundredths; entries carry at most two
\* decimals.  ok = FALSE is the ValueError.
ParseFloat(s) ==
    LET neg  == s # <<>> /\ Head(s) = "-"
        body == IF neg THEN Tail(s) ELSE s
        pts  == {i \in DOMAIN body : body[i] = "."}
        ent  == IF pts = {} THEN body
                ELSE SubSeq(body, 1, (CHOOSE i \in pts : TRUE) - 1)
        frac == IF pts = {} THEN <<>>
                ELSE SubSeq(body, (CHOOSE i \in pts : TRUE) + 1, Len(body))
        ok   == /\ Cardinality(pts) <= 1
                /\ EsDigitos(ent) /\ EsDigitos(frac)
                /\ Len(ent) + Len(frac) > 0
                /\ Len(frac) <= 2
        cent == IF Len(frac) = 1 THEN 10 * ValorDigitos(frac) ELSE ValorDigitos(frac)
        mag  == 100 * ValorDigitos(ent) + cent
    IN  IF ok THEN [ok |-> TRUE, val |-> IF neg THEN 0 - mag ELSE mag]
        ELSE [ok |-> FALSE, val |-> 0]

\* (variant) validate_cantidad rejecting the limit itself
validate_cantidad_limiteFuera(cantidad_str) ==
    LET f == ParseFloat(ReplaceComa(cantidad_str)) IN
    IF ~f.ok THEN [ok |-> FALSE, val |-> 0, msg |-> "Cantidad invalida"]
    ELSE IF f.val < 0 THEN [ok |-> FALSE, val |-> 0, msg |-> "Cantidad negativa"]
    ELSE IF f.val >= MAX_CANTIDAD * 100 THEN [ok |-> FALSE, val |-> 0, msg |-> "Cantidad muy grande"]
    ELSE [ok |-> TRUE, val |-> f.val, msg |-> ""]

\* validate_cantidad: (ok, quantity or message)
validate_cantidad(cantidad_str) ==
    LET f == ParseFloat(ReplaceComa(cantidad_str)) IN
    IF ~f.ok THEN [ok |-> FALSE, val |-> 0, msg |-> "Cantidad invalida"]
    ELSE IF f.val < 0 THEN [ok |-> FALSE, val |-> 0, msg |-> "Cantidad negativa"]
    ELSE IF f.val > MAX_CANTIDAD * 100 THEN [ok |-> FALSE, val |-> 0, msg |-> "Cantidad muy grande"]
    ELSE [ok |-> TRUE, val |-> f.val, msg |-> ""]

---------------------------------------------------------------------------
(* The store: items_corte and historial_movimientos *)

\* (variant) a plain stored column that no statement recomputes
Generada_noRecalcula(r) == r

\* diferencia DECIMAL(10,2) GENERATED ALWAYS AS (conteo_fisico - stock_sistema):
\* the engine recomputes the column on every row write.
Generada(r) == [r EXCEPT !.diferencia = r.conteo_fisico - r.stock_sistema]

\* A row as an INSERT that names sesion_id, codigo, linea, stock_sistema
\* leaves it: the remaining columns take their defaults.
NuevoItem(s, cod, lin, stock) ==
    Generada([sesion_id |-> s, codigo |-> cod, linea |-> lin,
              stock_sistema |-> stock, conteo_fisico |-> 0, diferencia |-> 0,
              novedad |-> <<>>, fecha_conteo |-> 0, ultimo_equipo_id |-> 0])

\* SELECT ... FROM items_corte WHERE sesion_id=%s AND codigo=%s
BuscarItems(its, s, cod) ==
    SelectSeq(its, LAMBDA r : r.sesion_id = s /\ r.codigo = cod)

\* (variant) an UPDATE that adds the quantity to the stored one
UpdateConteo_acumula(its, cant, nov, eq, s, cod, ahora) ==
    [i \in DOMAIN its |->
        IF its[i].sesion_id = s /\ its[i].codigo = cod
        THEN Generada([its[i] EXCEPT !.conteo_fisico = @ + cant, !.novedad = nov,
                                     !.fecha_conteo = ahora, !.ultimo_equipo_id = eq])
        ELSE its[i]]

\* UPDATE items_corte SET conteo_fisico=%s, novedad=%s, fecha_conteo=NOW(),
\*        ultimo_equipo_id=%s WHERE sesion_id=%s AND codigo=%s
UpdateConteo(its, cant, nov, eq, s, cod, ahora) ==
    [i \in DOMAIN its |->
        IF its[i].sesion_id = s /\ its[i].codigo = cod
        THEN Generada([its[i] EXCEPT !.conteo_fisico = cant, !.novedad = nov,
                                     !.fecha_conteo = ahora, !.ultimo_equipo_id = eq])
        ELSE its[i]]

\* INSERT INTO historial_movimientos (...) VALUES (..., NOW())
NuevoMovimiento(s, cod, eq, tipo, cant_ant, cant, ahora) ==
    [sesion_id |-> s, item_codigo |-> cod, equipo_id |-> eq, tipo_accion |-> tipo,
     cantidad_anterior |-> cant_ant, cantidad_resultante |-> cant,
     fecha_movimiento |-> ahora]

\* (variant) a statement that replaces the newest row instead of adding one
InsertMovimiento_reemplaza(hist, m) ==
    IF hist = <<>> THEN <<m>> ELSE [hist EXCEPT ![Len(hist)] = m]

\* the INSERT adds one row to historial_movimientos (AUTO_INCREMENT id)
InsertMovimiento(hist, m) == Append(hist, m)

\* The outcomes of DBManager.execute_query: the statement runs, or raises.
ResultadosBD == {"ok", "error"}

---------------------------------------------------------------------------
(* Inputs of the operator *)

CodA == <<"A">>
CodB == <<"B">>
CodigoInputs == {<<"a">>, <<"B", " ">>, <<" ">>}
CantidadInputs == {<<"2">>, <<"0">>, <<"-", "1">>}

SinDialogo == [tipo |-> "ninguno", cod |-> <<>>, cant_actual |-> 0, cant_nueva |-> 0,
               sesion |-> 0, equipo |-> 0]
SinConflicto == [hay |-> FALSE, equipo |-> 0, cantidad |-> 0, fecha |-> 0]
SinKpis == [total |-> 0, contados |-> 0, faltantes |-> 0, sobrantes |-> 0, exactos |-> 0]

---------------------------------------------------------------------------
(* Initial state: the application instances have been constructed          *)
(* (__init__, _load_initial_data, _start_sync) against a store holding two *)
(* sessions created from the master spreadsheet, nothing counted yet.      *)

ItemsIniciales ==
    << NuevoItem(1, CodA, "L1", 100),
       NuevoItem(1, CodB, "L2", 200),
       NuevoItem(2, CodA, "L1", 0) >>

KpiInicial == [avance |-> 0, exactitud |-> 0, pendientes |-> 0,
               faltantes |-> 0, sobrantes |-> 0, total |-> 0]

\* no dialog or window open and no save in flight
InitVentanas ==
    /\ ventana_abierta = [c \in Clientes |-> FALSE]
    /\ dlg = [c \in Clientes |-> SinDialogo]
    /\ conflicto = [c \in Clientes |-> SinConflicto]
    /\ hilos = [c \in Clientes |-> <<>>]
    /\ vstock = [c \in Clientes |-> 0]

\* the counting form with no product looked up
InitForma ==
    /\ InitVentanas
    /\ producto_actual = [c \in Clientes |-> [codigo |-> <<>>, es_nuevo |-> FALSE]]
    /\ en_novedad = [c \in Clientes |-> <<>>]

\* _start_sync: the loop thread is running
InitLoop ==
    /\ sync_running = [c \in Clientes |-> TRUE]
    /\ loop_pc = [c \in Clientes |-> "while"]
    /\ cierre = [c \in Clientes |-> "no"]
    /\ after_cola = [c \in Clientes |-> 0]

\* __init__ and _load_initial_data: no session, the first team preselected
InitApp ==
    /\ InitForma
    /\ InitLoop
    /\ sesion_id = [c \in Clientes |-> 0]
    /\ equipo_id = [c \in Clientes |-> 1]
    /\ filtro_lineas = [c \in Clientes |-> {}]
    /\ aviso = [c \in Clientes |-> ""]
    /\ sync_in_progress = [c \in Clientes |-> FALSE]
    /\ sync_counter = [c \in Clientes |-> 0]
    /\ pases = [c \in Clientes |-> <<>>]
    /\ kpi = [c \in Clientes |-> KpiInicial]
    /\ data_pendientes = [c \in Clientes |-> <<>>]
    /\ data_diferencias = [c \in Clientes |-> <<>>]
    /\ lbl_sync = [c \in Clientes |-> ""]
    /\ solicitud = [c \in Clientes |-> FALSE]

---------------------------------------------------------------------------
(* Synchronisation entry points (UI thread) *)

\* A pass thread at its start; params collects the (session, filter) pairs
\* that its queries were built with (params, p_pend, p_dif)
NuevoPase ==
    [pc |-> "inicio", kpis |-> SinKpis, data_pend |-> <<>>, data_dif |-> <<>>, params |-> {}]

\* Room for the thread _sync_update would start
CabePase(c) == sync_in_progress[c] \/ Len(pases[c]) < MaxPases

\* (variant) _sync_update without the sync_in_progress test
SyncUpdate_sinGuarda(c) ==
    /\ sync_in_progress' = [sync_in_progress EXCEPT ![c] = TRUE]
    /\ pases' = [pases EXCEPT ![c] = Append(@, NuevoPase)]

\* _sync_update: drop the call while a pass is in progress, else start one
SyncUpdate(c) ==
    IF sync_in_progress[c]
    THEN UNCHANGED <<sync_in_progress, pases>>
    ELSE /\ sync_in_progress' = [sync_in_progress EXCEPT ![c] = TRUE]
         /\ pases' = [pases EXCEPT ![c] = Append(@, NuevoPase)]

\* A manual refresh asks for a recompute of the selected session
Solicita(c, s) ==
    solicitud' = [solicitud EXCEPT ![c] = @ \/ (s # 0)]

\* _refresh_all
RefreshAll(c) ==
    /\ sync_counter' = [sync_counter EXCEPT ![c] = 2]
    /\ SyncUpdate(c)

\* _limpiar_form
LimpiarForm(c) ==
    /\ producto_actual' = [producto_actual EXCEPT ![c].codigo = <<>>]
    /\ en_novedad' = [en_novedad EXCEPT ![c] = <<>>]

---------------------------------------------------------------------------
(* Count submission (UI thread handlers of one application instance c) *)

Notifica(c, m) == aviso' = [aviso EXCEPT ![c] = m]

\* the UI thread of instance c runs its event loop (destroy has not been called)
UiViva(c) == cierre[c] = "no"

\* _mostrar_conflicto_equipo is called for row p when the team selected is eq
HayConflicto(p, eq) == p.conteo_fisico > 0 /\ p.ultimo_equipo_id # eq

\* what _mostrar_conflicto_equipo displays of row p
Conflicto(p) == [hay |-> TRUE, equipo |-> p.ultimo_equipo_id,
                 cantidad |-> p.conteo_fisico, fecha |-> p.fecha_conteo]

\* (variant) a declined conflict prompt that leaves the product selected
CodigoTrasConflicto_sinLimpiar(cod, limpia) == cod

\* producto_actual["codigo"] after the conflict check: _limpiar_form sets it
\* to None when the operator answers no to the prompt
CodigoTrasConflicto(cod, limpia) == IF limpia THEN <<>> ELSE cod

\* _buscar_producto with txt in the code entry; r is the outcome of the
\* SELECT, respuesta the operator's answer to whichever yes/no prompt appears
\* (conflict prompt, or "add as EXTRA?").
BuscarProducto(c, txt, r, respuesta) ==
    /\ ops > 0
    /\ UiViva(c)
    /\ ~ventana_abierta[c]
    /\ ops' = ops - 1
    /\ UNCHANGED vstock
    /\ UNCHANGED <<storeVars, sesion_id, equipo_id, filtro_lineas, hilos, syncVars>>
    /\ IF sesion_id[c] = 0 \/ equipo_id[c] = 0
       THEN /\ Notifica(c, "Configure sesion y equipo")
            /\ UNCHANGED <<producto_actual, ventana_abierta, dlg, en_novedad, conflicto>>
       ELSE
       LET v == validate_codigo(txt)
           prod == BuscarItems(items, sesion_id[c], v.val)
       IN
       IF ~v.ok
       THEN /\ Notifica(c, v.msg)
            /\ UNCHANGED <<producto_actual, ventana_abierta, dlg, en_novedad, conflicto>>
       ELSE IF r = "error"
       THEN /\ Notifica(c, "Error")
            /\ UNCHANGED <<producto_actual, ventana_abierta, dlg, en_novedad, conflicto>>
       ELSE IF prod # <<>>
       THEN LET p == prod[1]
                flag == HayConflicto(p, equipo_id[c])
                limpia == flag /\ ~respuesta
            IN
            /\ producto_actual' = [producto_actual EXCEPT ![c] =
                    [codigo |-> CodigoTrasConflicto(v.val, limpia), es_nuevo |-> FALSE]]
            /\ en_novedad' = [en_novedad EXCEPT ![c] =
                    IF p.conteo_fisico > 0 /\ ~limpia THEN p.novedad ELSE <<>>]
            /\ conflicto' = [conflicto EXCEPT ![c] =
                    IF flag THEN Conflicto(p) ELSE SinConflicto]
            /\ UNCHANGED <<ventana_abierta, dlg, aviso>>
       ELSE \* the code does not exist in the session
            /\ IF respuesta
               THEN /\ ventana_abierta' = [ventana_abierta EXCEPT ![c] = TRUE]
                    /\ dlg' = [dlg EXCEPT ![c] =
                            [tipo |-> "alta", cod |-> v.val, cant_actual |-> 0, cant_nueva |-> 0,
                             sesion |-> sesion_id[c], equipo |-> equipo_id[c]]]
               ELSE UNCHANGED <<ventana_abierta, dlg>>
            /\ UNCHANGED <<producto_actual, en_novedad, aviso, conflicto>>

\* _abrir_alta.confirmar with a non-empty name: INSERT the extra item
ConfirmarAlta(c, lin, r) ==
    /\ ops > 0
    /\ UiViva(c)
    /\ dlg[c].tipo = "alta"
    /\ ops' = ops - 1
    /\ UNCHANGED vstock
    /\ UNCHANGED <<historial, reloj, sesion_id, equipo_id, filtro_lineas, en_novedad,
                   conflicto, hilos, syncVars>>
    /\ IF r = "error" \/ sesion_id[c] = 0
       THEN /\ Notifica(c, "Error")
            /\ UNCHANGED <<items, escritor, producto_actual, ventana_abierta, dlg>>
       ELSE /\ items' = Append(items, NuevoItem(sesion_id[c], dlg[c].cod, lin, 0))
            /\ escritor' = Append(escritor, 0)
            /\ producto_actual' = [producto_actual EXCEPT ![c] =
                    [codigo |-> dlg[c].cod, es_nuevo |-> TRUE]]
            /\ ventana_abierta' = [ventana_abierta EXCEPT ![c] = FALSE]
            /\ dlg' = [dlg EXCEPT ![c] = SinDialogo]
            /\ UNCHANGED aviso

\* close(): the WM_DELETE_WINDOW handler of either dialog
CerrarDialogo(c) ==
    /\ ops > 0
    /\ UiViva(c)
    /\ dlg[c].tipo # "ninguno"
    /\ ops' = ops - 1
    /\ UNCHANGED vstock
    /\ ventana_abierta' = [ventana_abierta EXCEPT ![c] = FALSE]
    /\ dlg' = [dlg EXCEPT ![c] = SinDialogo]
    /\ UNCHANGED <<storeVars, sesion_id, equipo_id, filtro_lineas, producto_actual,
                   en_novedad, aviso, conflicto, hilos, syncVars>>

\* _guardar_conteo: start a guardar_background thread.  The thread closes
\* over cod, cant, tipo, cant_ant and nov; sesion_envio and equipo_envio
\* record the session and team that were selected when _pre_save read the
\* item's conteo_fisico (the thread does not use them).
NuevoHilo(c, cod, cant, tipo, cant_ant) ==
    [pc |-> "update", cod |-> cod, cant |-> cant, tipo |-> tipo, cant_ant |-> cant_ant,
     nov |-> IF producto_actual[c].es_nuevo THEN <<"(NUEVO)">> \o en_novedad[c]
             ELSE en_novedad[c],
     sesion_envio |-> IF dlg[c].tipo = "duplicado" THEN dlg[c].sesion ELSE sesion_id[c],
     equipo_envio |-> IF dlg[c].tipo = "duplicado" THEN dlg[c].equipo ELSE equipo_id[c]]

GuardarConteo(c, cod, cant, tipo, cant_ant) ==
    hilos' = [hilos EXCEPT ![c] = Append(@, NuevoHilo(c, cod, cant, tipo, cant_ant))]

\* the row _pre_save classifies the submission by
Existe(c) == BuscarItems(items, sesion_id[c], producto_actual[c].codigo)

\* (variant) "if existe:" without the test of conteo_fisico
YaContado_soloExiste(c) == Existe(c) # <<>>

\* if existe and existe[0]['conteo_fisico'] > 0
YaContado(c) == Existe(c) # <<>> /\ Existe(c)[1].conteo_fisico > 0

\* _pre_save with cant_str in the quantity entry; r the outcome of the SELECT
PreSave(c, cant_str, r) ==
    /\ ops > 0
    /\ UiViva(c)
    /\ ~ventana_abierta[c]
    /\ Len(hilos[c]) < MaxHilos
    /\ ops' = ops - 1
    /\ UNCHANGED vstock
    /\ UNCHANGED <<storeVars, sesion_id, equipo_id, filtro_lineas, producto_actual,
                   en_novedad, conflicto, syncVars>>
    /\ LET v == validate_cantidad(cant_str) IN
       IF producto_actual[c].codigo = <<>>
       THEN /\ Notifica(c, "Busque un producto primero")
            /\ UNCHANGED <<ventana_abierta, dlg, hilos>>
       ELSE IF ~v.ok
       THEN /\ Notifica(c, v.msg)
            /\ UNCHANGED <<ventana_abierta, dlg, hilos>>
       ELSE IF r = "error"
       THEN UNCHANGED <<aviso, ventana_abierta, dlg, hilos>>
       ELSE IF YaContado(c)
       THEN /\ ventana_abierta' = [ventana_abierta EXCEPT ![c] = TRUE]
            /\ dlg' = [dlg EXCEPT ![c] =
                    [tipo |-> "duplicado", cod |-> producto_actual[c].codigo,
                     cant_actual |-> Existe(c)[1].conteo_fisico, cant_nueva |-> v.val,
                     sesion |-> sesion_id[c], equipo |-> equipo_id[c]]]
            /\ UNCHANGED <<aviso, hilos>>
       ELSE /\ GuardarConteo(c, producto_actual[c].codigo, v.val, "NUEVO", 0)
            /\ UNCHANGED <<aviso, ventana_abierta, dlg>>

\* _mostrar_dialogo_duplicado.sumar
Sumar(c) ==
    /\ ops > 0
    /\ UiViva(c)
    /\ dlg[c].tipo = "duplicado"
    /\ Len(hilos[c]) < MaxHilos
    /\ ops' = ops - 1
    /\ UNCHANGED vstock
    /\ GuardarConteo(c, dlg[c].cod, dlg[c].cant_actual + dlg[c].cant_nueva,
                     "SUMA", dlg[c].cant_actual)
    /\ ventana_abierta' = [ventana_abierta EXCEPT ![c] = FALSE]
    /\ dlg' = [dlg EXCEPT ![c] = SinDialogo]
    /\ UNCHANGED <<storeVars, sesion_id, equipo_id, filtro_lineas, producto_actual,
                   en_novedad, aviso, conflicto, syncVars>>

\* _mostrar_dialogo_duplicado.reemplazar
Reemplazar(c) ==
    /\ ops > 0
    /\ UiViva(c)
    /\ dlg[c].tipo = "duplicado"
    /\ Len(hilos[c]) < MaxHilos
    /\ ops' = ops - 1
    /\ UNCHANGED vstock
    /\ GuardarConteo(c, dlg[c].cod, dlg[c].cant_nueva, "REEMPLAZO", dlg[c].cant_actual)
    /\ ventana_abierta' = [ventana_abierta EXCEPT ![c] = FALSE]
    /\ dlg' = [dlg EXCEPT ![c] = SinDialogo]
    /\ UNCHANGED <<storeVars, sesion_id, equipo_id, filtro_lineas, producto_actual,
                   en_novedad, aviso, conflicto, syncVars>>

\* _on_select_sesion
SeleccionarSesion(c, s) ==
    /\ ops > 0
    /\ UiViva(c)
    /\ CabePase(c)
    /\ ops' = ops - 1
    /\ UNCHANGED vstock
    /\ sesion_id' = [sesion_id EXCEPT ![c] = s]
    /\ filtro_lineas' = [filtro_lineas EXCEPT ![c] = {}]
    /\ RefreshAll(c)
    /\ Solicita(c, s)
    /\ UNCHANGED <<storeVars, equipo_id, formVars, hilos, sync_running, cierre, loop_pc,
                   after_cola, kpi, data_pendientes, data_diferencias, lbl_sync>>

\* _on_select_equipo
SeleccionarEquipo(c, e) ==
    /\ ops > 0
    /\ UiViva(c)
    /\ e # equipo_id[c]
    /\ ops' = ops - 1
    /\ UNCHANGED vstock
    /\ equipo_id' = [equipo_id EXCEPT ![c] = e]
    /\ UNCHANGED <<storeVars, sesion_id, filtro_lineas, formVars, hilos, syncVars>>

---------------------------------------------------------------------------
(* guardar_background: the thread h = hilos[c][i] *)

\* except Exception as e: self.after(0, lambda: messagebox.showerror("Error",
\* f"Error: {e}")).  The callback runs on the UI thread and reads e, which the
\* thread unbinds when its except clause ends: if the callback runs first the
\* error is shown, otherwise it raises NameError and nothing is shown.
NotificaError(c) == Notifica(c, "Error") \/ UNCHANGED aviso

\* UPDATE items_corte ...; sesion_id and equipo_id are read from the
\* application object when the statement is issued.
HiloUpdate(c, i, r) ==
    /\ i \in DOMAIN hilos[c]
    /\ hilos[c][i].pc = "update"
    /\ LET h == hilos[c][i] IN
       IF r = "error"
       THEN /\ hilos' = [hilos EXCEPT ![c] = Quitar(@, i)]
            /\ NotificaError(c)
            /\ UNCHANGED <<items, reloj, escritor>>
       ELSE /\ items' = UpdateConteo(items, h.cant, h.nov, equipo_id[c],
                                     sesion_id[c], h.cod, reloj)
            /\ escritor' = [k \in DOMAIN items |->
                    IF items[k].sesion_id = sesion_id[c] /\ items[k].codigo = h.cod
                    THEN c ELSE escritor[k]]
            /\ reloj' = reloj + 1
            /\ hilos' = [hilos EXCEPT ![c][i].pc = "insert"]
            /\ UNCHANGED aviso
    /\ UNCHANGED <<historial, sesion_id, equipo_id, filtro_lineas, producto_actual,
                   ventana_abierta, dlg, en_novedad, conflicto, syncVars, vstock, ops>>

\* INSERT INTO historial_movimientos ...
HiloInsert(c, i, r) ==
    /\ i \in DOMAIN hilos[c]
    /\ hilos[c][i].pc = "insert"
    /\ LET h == hilos[c][i] IN
       IF r = "error" \/ sesion_id[c] = 0
       THEN /\ hilos' = [hilos EXCEPT ![c] = Quitar(@, i)]
            /\ NotificaError(c)
            /\ UNCHANGED historial
       ELSE /\ historial' = InsertMovimiento(historial,
                    NuevoMovimiento(sesion_id[c], h.cod, equipo_id[c], h.tipo,
                                    h.cant_ant, h.cant, reloj))
            /\ hilos' = [hilos EXCEPT ![c][i].pc = "exito"]
            /\ UNCHANGED aviso
    /\ UNCHANGED <<items, reloj, escritor, sesion_id, equipo_id, filtro_lineas, producto_actual,
                   ventana_abierta, dlg, en_novedad, conflicto, syncVars, vstock, ops>>

\* after(0, _on_guardado_exitoso): the UI thread reports the success,
\* clears the form and refreshes
HiloExito(c, i) ==
    /\ i \in DOMAIN hilos[c]
    /\ hilos[c][i].pc = "exito"
    /\ CabePase(c)
    /\ hilos' = [hilos EXCEPT ![c] = Quitar(@, i)]
    /\ Notifica(c, "OK")
    /\ LimpiarForm(c)
    /\ RefreshAll(c)
    /\ Solicita(c, sesion_id[c])
    /\ UNCHANGED <<storeVars, sesion_id, equipo_id, filtro_lineas, ventana_abierta, dlg,
                   conflicto, sync_running, cierre, loop_pc, after_cola, kpi, data_pendientes,
                   data_diferencias, lbl_sync, vstock, ops>>

---------------------------------------------------------------------------
(* Aggregation queries of _sync_update_background *)

\* the WHERE clause built from sesion_id and filtro_lineas
EnFiltro(r, s, filtro) == r.sesion_id = s /\ (filtro = {} \/ r.linea \in filtro)

\* (variant) q_kpis without "AND stock_sistema > 0"
QKpis_sinStock(its, s, filtro) ==
    LET Q(r) == EnFiltro(r, s, filtro) IN
    [total     |-> Len(SelectSeq(its, Q)),
     contados  |-> Len(SelectSeq(its, LAMBDA r : Q(r) /\ r.conteo_fisico > 0)),
     faltantes |-> Len(SelectSeq(its, LAMBDA r : Q(r) /\ r.conteo_fisico - r.stock_sistema < 0
                                               /\ r.conteo_fisico > 0)),
     sobrantes |-> Len(SelectSeq(its, LAMBDA r : Q(r) /\ r.conteo_fisico - r.stock_sistema > 0)),
     exactos   |-> Len(SelectSeq(its, LAMBDA r : Q(r) /\ r.conteo_fisico - r.stock_sistema = 0
                                               /\ r.conteo_fisico > 0))]

\* (variant) q_kpis whose faltantes CASE lacks "AND conteo_fisico > 0"
QKpis_faltantesSinConteo(its, s, filtro) ==
    LET Q(r) == EnFiltro(r, s, filtro) /\ r.stock_sistema > 0 IN
    [total     |-> Len(SelectSeq(its, Q)),
     contados  |-> Len(SelectSeq(its, LAMBDA r : Q(r) /\ r.conteo_fisico > 0)),
     faltantes |-> Len(SelectSeq(its, LAMBDA r : Q(r) /\ r.conteo_fisico - r.stock_sistema < 0)),
     sobrantes |-> Len(SelectSeq(its, LAMBDA r : Q(r) /\ r.conteo_fisico - r.stock_sistema > 0)),
     exactos   |-> Len(SelectSeq(its, LAMBDA r : Q(r) /\ r.conteo_fisico - r.stock_sistema = 0
                                               /\ r.conteo_fisico > 0))]

\* q_kpis: one SELECT with five COUNTs over the rows with stock_sistema > 0
QKpis(its, s, filtro) ==
    LET Q(r) == EnFiltro(r, s, filtro) /\ r.stock_sistema > 0 IN
    [total     |-> Len(SelectSeq(its, Q)),
     contados  |-> Len(SelectSeq(its, LAMBDA r : Q(r) /\ r.conteo_fisico > 0)),
     faltantes |-> Len(SelectSeq(its, LAMBDA r : Q(r) /\ r.conteo_fisico - r.stock_sistema < 0
                                               /\ r.conteo_fisico > 0)),
     sobrantes |-> Len(SelectSeq(its, LAMBDA r : Q(r) /\ r.conteo_fisico - r.stock_sistema > 0)),
     exactos   |-> Len(SelectSeq(its, LAMBDA r : Q(r) /\ r.conteo_fisico - r.stock_sistema = 0
                                               /\ r.conteo_fisico > 0))]

\* q_pend without its LIMIT clause
QPend_sinLimite(its, s, filtro) ==
    LET sel == SelectSeq(its, LAMBDA r : EnFiltro(r, s, filtro) /\ r.conteo_fisico = 0
                                         /\ r.stock_sistema > 0)
    IN  [i \in DOMAIN sel |-> [codigo |-> sel[i].codigo, stock |-> sel[i].stock_sistema]]

\* q_pend ... LIMIT 100, as data_pend
QPend(its, s, filtro) ==
    LET sel == SelectSeq(its, LAMBDA r : EnFiltro(r, s, filtro) /\ r.conteo_fisico = 0
                                         /\ r.stock_sistema > 0)
        lim == Primeros(sel, LIMITE)
    IN  [i \in DOMAIN lim |-> [codigo |-> lim[i].codigo, stock |-> lim[i].stock_sistema]]

\* q_dif ... LIMIT 100, as data_dif
QDif(its, s, filtro) ==
    LET sel == SelectSeq(its, LAMBDA r : EnFiltro(r, s, filtro) /\ r.diferencia # 0
                                         /\ r.conteo_fisico > 0)
        lim == Primeros(sel, LIMITE)
    IN  [i \in DOMAIN lim |-> [codigo |-> lim[i].codigo, diferencia |-> lim[i].diferencia,
                               stock |-> lim[i].stock_sistema]]

\* f"{(num / den) * 100:.1f}" as a number of tenths of a percent
\* (round half to even; den > 0)
Pct(num, den) ==
    LET q == (num * 1000) \div den
        r == (num * 1000) % den
    IN  IF 2 * r < den THEN q
        ELSE IF 2 * r > den THEN q + 1
        ELSE IF q % 2 = 0 THEN q ELSE q + 1

\* The label texts after the KPI block has run on the result k of q_kpis
Publica(old, k) ==
    [avance     |-> IF k.total > 0 THEN Pct(k.contados, k.total) ELSE old.avance,
     pendientes |-> IF k.total > 0 THEN k.total - k.contados ELSE old.pendientes,
     exactitud  |-> IF k.contados > 0 THEN Pct(k.exactos, k.contados) ELSE old.exactitud,
     faltantes  |-> k.faltantes,
     sobrantes  |-> k.sobrantes,
     total      |-> k.total]

---------------------------------------------------------------------------
(* _sync_update_background: the thread p = pases[c][i] *)

\* if not self.sesion_id: return  (before the try block)
PaseInicio(c, i) ==
    /\ i \in DOMAIN pases[c]
    /\ pases[c][i].pc = "inicio"
    /\ IF sesion_id[c] = 0
       THEN /\ pases' = [pases EXCEPT ![c] = Quitar(@, i)]
            /\ UNCHANGED lbl_sync
       ELSE /\ pases' = [pases EXCEPT ![c][i].pc = "kpis"]
            /\ lbl_sync' = [lbl_sync EXCEPT ![c] = "Actualizando..."]
    /\ UNCHANGED <<storeVars, sesion_id, equipo_id, filtro_lineas, formVars, hilos,
                   sync_running, cierre, sync_in_progress, sync_counter, loop_pc, after_cola,
                   kpi, data_pendientes, data_diferencias, solicitud, vstock, ops>>

\* (variant) the except clause without the finally clause
PaseError_sinFinally(c, i) ==
    /\ pases' = [pases EXCEPT ![c] = Quitar(@, i)]
    /\ lbl_sync' = [lbl_sync EXCEPT ![c] = "Error sync"]
    /\ UNCHANGED sync_in_progress

\* except: "Error sync"; finally: release the flag
PaseError(c, i) ==
    /\ pases' = [pases EXCEPT ![c] = Quitar(@, i)]
    /\ lbl_sync' = [lbl_sync EXCEPT ![c] = "Error sync"]
    /\ sync_in_progress' = [sync_in_progress EXCEPT ![c] = FALSE]

\* 1. KPIs
PaseKpis(c, i, r) ==
    /\ i \in DOMAIN pases[c]
    /\ pases[c][i].pc = "kpis"
    /\ IF r = "error"
       THEN PaseError(c, i)
       ELSE /\ pases' = [pases EXCEPT ![c][i].pc = "pend",
                         ![c][i].kpis = QKpis(items, sesion_id[c], filtro_lineas[c]),
                         ![c][i].params = @ \cup {<<sesion_id[c], filtro_lineas[c]>>}]
            /\ UNCHANGED <<lbl_sync, sync_in_progress>>
    /\ solicitud' = [solicitud EXCEPT ![c] = FALSE]
    /\ UNCHANGED <<storeVars, sesion_id, equipo_id, filtro_lineas, formVars, hilos,
                   sync_running, cierre, sync_counter, loop_pc, after_cola,
                   kpi, data_pendientes, data_diferencias, vstock, ops>>

\* 2. Pendientes
PasePend(c, i, r) ==
    /\ i \in DOMAIN pases[c]
    /\ pases[c][i].pc = "pend"
    /\ IF r = "error"
       THEN PaseError(c, i)
       ELSE /\ pases' = [pases EXCEPT ![c][i].pc = "dif",
                         ![c][i].data_pend = QPend(items, sesion_id[c], filtro_lineas[c]),
                         ![c][i].params = @ \cup {<<sesion_id[c], filtro_lineas[c]>>}]
            /\ UNCHANGED <<lbl_sync, sync_in_progress>>
    /\ UNCHANGED <<storeVars, sesion_id, equipo_id, filtro_lineas, formVars, hilos,
                   sync_running, cierre, sync_counter, loop_pc, after_cola,
                   kpi, data_pendientes, data_diferencias, solicitud, vstock, ops>>

\* 3. Diferencias
PaseDif(c, i, r) ==
    /\ i \in DOMAIN pases[c]
    /\ pases[c][i].pc = "dif"
    /\ IF r = "error"
       THEN PaseError(c, i)
       ELSE /\ pases' = [pases EXCEPT ![c][i].pc = "movs",
                         ![c][i].data_dif = QDif(items, sesion_id[c], filtro_lineas[c]),
                         ![c][i].params = @ \cup {<<sesion_id[c], filtro_lineas[c]>>}]
            /\ UNCHANGED <<lbl_sync, sync_in_progress>>
    /\ UNCHANGED <<storeVars, sesion_id, equipo_id, filtro_lineas, formVars, hilos,
                   sync_running, cierre, sync_counter, loop_pc, after_cola,
                   kpi, data_pendientes, data_diferencias, solicitud, vstock, ops>>

\* 4. Historial (the rows it returns only feed the history panel), then the
\* KPI block, the caches and the finally clause.  The label updates queued
\* with after(0, ...) are applied with the step that queues them.
PasePublicar(c, i, r) ==
    /\ i \in DOMAIN pases[c]
    /\ pases[c][i].pc = "movs"
    /\ IF r = "error"
       THEN /\ PaseError(c, i)
            /\ UNCHANGED <<kpi, sync_counter, data_pendientes, data_diferencias>>
       ELSE /\ kpi' = [kpi EXCEPT ![c] = Publica(@, pases[c][i].kpis)]
            /\ sync_counter' = [sync_counter EXCEPT ![c] = (@ + 1) % 3]
            /\ data_pendientes' = [data_pendientes EXCEPT ![c] = pases[c][i].data_pend]
            /\ data_diferencias' = [data_diferencias EXCEPT ![c] = pases[c][i].data_dif]
            /\ lbl_sync' = [lbl_sync EXCEPT ![c] = "Sincronizado"]
            /\ sync_in_progress' = [sync_in_progress EXCEPT ![c] = FALSE]
            /\ pases' = [pases EXCEPT ![c] = Quitar(@, i)]
    /\ UNCHANGED <<storeVars, sesion_id, equipo_id, filtro_lineas, formVars, hilos,
                   sync_running, cierre, loop_pc, after_cola, solicitud, vstock, ops>>

---------------------------------------------------------------------------
(* The scheduler: _sync_loop (its own thread) and the manual entry points *)

\* while self.sync_running:
LoopWhile(c) ==
    /\ loop_pc[c] = "while"
    /\ loop_pc' = [loop_pc EXCEPT ![c] = IF sync_running[c] THEN "sleep" ELSE "fin"]
    /\ UNCHANGED <<storeVars, sesion_id, equipo_id, filtro_lineas, formVars, hilos,
                   sync_running, cierre, sync_in_progress, sync_counter, after_cola, pases,
                   kpi, data_pendientes, data_diferencias, lbl_sync, solicitud, vstock, ops>>

\* time.sleep returns; if self.sesion_id: self.after(0, self._sync_update).
\* sync_running is not read again here.  While the UI thread waits in the
\* join of destroy the call either queues the callback or raises, and once
\* the window is destroyed it raises; the except clause swallows the error.
LoopTick(c) ==
    /\ loop_pc[c] = "sleep"
    /\ sesion_id[c] = 0 \/ after_cola[c] < MaxCola
    /\ loop_pc' = [loop_pc EXCEPT ![c] = "while"]
    /\ \/ /\ sesion_id[c] # 0
          /\ cierre[c] # "fin"
          /\ after_cola' = [after_cola EXCEPT ![c] = @ + 1]
       \/ /\ sesion_id[c] = 0 \/ cierre[c] # "no"
          /\ UNCHANGED after_cola
    /\ UNCHANGED <<storeVars, sesion_id, equipo_id, filtro_lineas, formVars, hilos,
                   sync_running, cierre, sync_in_progress, sync_counter, pases,
                   kpi, data_pendientes, data_diferencias, lbl_sync, solicitud, vstock, ops>>

\* the UI thread runs a queued _sync_update
TickSyncUpdate(c) ==
    /\ UiViva(c)
    /\ after_cola[c] > 0
    /\ CabePase(c)
    /\ after_cola' = [after_cola EXCEPT ![c] = @ - 1]
    /\ SyncUpdate(c)
    /\ UNCHANGED <<storeVars, sesion_id, equipo_id, filtro_lineas, formVars, hilos,
                   sync_running, cierre, sync_counter, loop_pc,
                   kpi, data_pendientes, data_diferencias, lbl_sync, solicitud, vstock, ops>>

\* destroy, up to the join: self.sync_running = False, then the UI thread
\* waits in sync_thread.join(timeout=2).  The window is closed while no
\* save thread and no pass thread is running.
DestroyInicio(c) ==
    /\ ops > 0
    /\ UiViva(c)
    /\ hilos[c] = <<>> /\ pases[c] = <<>>
    /\ ops' = ops - 1
    /\ sync_running' = [sync_running EXCEPT ![c] = FALSE]
    /\ cierre' = [cierre EXCEPT ![c] = "join"]
    /\ UNCHANGED <<storeVars, sesion_id, equipo_id, filtro_lineas, formVars, hilos,
                   sync_in_progress, sync_counter, loop_pc, after_cola, pases,
                   kpi, data_pendientes, data_diferencias, lbl_sync, solicitud, vstock>>

\* destroy, after the join: it returns when the loop thread has ended or
\* when the 2 seconds are over; super().destroy() then removes the window
\* and the callbacks registered for it
DestroyFin(c) ==
    /\ cierre[c] = "join"
    /\ cierre' = [cierre EXCEPT ![c] = "fin"]
    /\ after_cola' = [after_cola EXCEPT ![c] = 0]
    /\ UNCHANGED <<storeVars, sesion_id, equipo_id, filtro_lineas, formVars, hilos,
                   sync_running, sync_in_progress, sync_counter, loop_pc, pases,
                   kpi, data_pendientes, data_diferencias, lbl_sync, solicitud, vstock, ops>>

\* the REFRESCAR buttons: _load_pendientes / _load_diferencias
Refrescar(c) ==
    /\ ops > 0
    /\ UiViva(c)
    /\ CabePase(c)
    /\ ops' = ops - 1
    /\ UNCHANGED vstock
    /\ SyncUpdate(c)
    /\ Solicita(c, sesion_id[c])
    /\ UNCHANGED <<storeVars, sesion_id, equipo_id, filtro_lineas, formVars, hilos,
                   sync_running, cierre, sync_counter, loop_pc, after_cola,
                   kpi, data_pendientes, data_diferencias, lbl_sync>>

\* SELECT DISTINCT linea FROM items_corte WHERE sesion_id=%s
LineasDe(its, s) == {its[i].linea : i \in {j \in DOMAIN its : its[j].sesion_id = s}}

\* _open_filter and _apply_filter with the selection sel
AplicarFiltro(c, sel) ==
    /\ ops > 0
    /\ UiViva(c)
    /\ sesion_id[c] # 0
    /\ sel \subseteq LineasDe(items, sesion_id[c])
    /\ CabePase(c)
    /\ ops' = ops - 1
    /\ UNCHANGED vstock
    /\ filtro_lineas' = [filtro_lineas EXCEPT ![c] = sel]
    /\ RefreshAll(c)
    /\ Solicita(c, sesion_id[c])
    /\ UNCHANGED <<storeVars, sesion_id, equipo_id, formVars, hilos,
                   sync_running, cierre, loop_pc, after_cola,
                   kpi, data_pendientes, data_diferencias, lbl_sync>>

---------------------------------------------------------------------------
(* Refresh of the system stock (VentanaActualizarStock) *)

\* Utils.limpiar_codigo
limpiar_codigo(valor) == Upper(Strip(valor))

\* Stock maps that calcular_stock_desde_excel returns for the spreadsheets
\* the operator may pick
MapasStock == { (CodA :> 300), (CodA :> 100 @@ CodB :> 50) }

\* (variant) a refresh that re-imports the rows: the counts start over
RefreshStock_reimporta(its, s, mapa) ==
    [i \in DOMAIN its |->
        IF its[i].sesion_id = s
        THEN LET codigo == limpiar_codigo(its[i].codigo) IN
             Generada([its[i] EXCEPT !.stock_sistema =
                          IF codigo \in DOMAIN mapa THEN mapa[codigo] ELSE 0,
                          !.conteo_fisico = 0, !.fecha_conteo = 0, !.ultimo_equipo_id = 0])
        ELSE its[i]]

\* UPDATE items_corte SET stock_sistema=%s WHERE id=%s for every row of the
\* session, committed together
RefreshStock(its, s, mapa) ==
    [i \in DOMAIN its |->
        IF its[i].sesion_id = s
        THEN LET codigo == limpiar_codigo(its[i].codigo) IN
             Generada([its[i] EXCEPT !.stock_sistema =
                          IF codigo \in DOMAIN mapa THEN mapa[codigo] ELSE 0])
        ELSE its[i]]

\* _actualizar_stock_corte: open the window for the selected session
AbrirActualizarStock(c) ==
    /\ ops > 0
    /\ UiViva(c)
    /\ sesion_id[c] # 0
    /\ vstock[c] = 0
    /\ ops' = ops - 1
    /\ vstock' = [vstock EXCEPT ![c] = sesion_id[c]]
    /\ UNCHANGED <<storeVars, sesion_id, equipo_id, filtro_lineas, formVars, hilos, syncVars>>

\* _cargar_y_actualizar with a spreadsheet giving mapa, confirmed by the
\* operator; r is the outcome of the store statements.  The window calls
\* _refresh_all and closes.
CargarYActualizar(c, mapa, r) ==
    /\ ops > 0
    /\ UiViva(c)
    /\ vstock[c] # 0
    /\ CabePase(c)
    /\ ops' = ops - 1
    /\ IF r = "error"
       THEN /\ Notifica(c, "Error")
            /\ UNCHANGED <<items, vstock, sync_counter, sync_in_progress, pases, solicitud>>
       ELSE /\ items' = RefreshStock(items, vstock[c], mapa)
            /\ vstock' = [vstock EXCEPT ![c] = 0]
            /\ RefreshAll(c)
            /\ Solicita(c, sesion_id[c])
            /\ UNCHANGED aviso
    /\ UNCHANGED <<historial, reloj, escritor, sesion_id, equipo_id, filtro_lineas,
                   producto_actual, ventana_abierta, dlg, en_novedad, conflicto, hilos,
                   sync_running, cierre, loop_pc, after_cola, kpi, data_pendientes,
                   data_diferencias, lbl_sync>>

---------------------------------------------------------------------------
(* Specifications *)

\* The store after team 1 has counted 1.00 of item A in session 1
ItemsContados == UpdateConteo(ItemsIniciales, 100, <<>>, 1, 1, CodA, 1)

InitContado ==
    /\ items = ItemsContados
    /\ historial = << NuevoMovimiento(1, CodA, 1, "NUEVO", 0, 100, 2) >>
    /\ reloj = 2
    /\ escritor = [k \in DOMAIN ItemsContados |-> 0]

\* Counting: every instance has selected session 1 and its own team, its
\* last aggregation pass has published the counted store, and instance 1
\* (team 1, the last counter of item A) has looked item A up.
InitConteo ==
    /\ InitContado
    /\ InitVentanas
    /\ producto_actual = [c \in Clientes |->
            [codigo |-> IF c = 1 THEN CodA ELSE <<>>, es_nuevo |-> FALSE]]
    /\ en_novedad = [c \in Clientes |-> <<>>]
    /\ InitLoop
    /\ sesion_id = [c \in Clientes |-> 1]
    /\ equipo_id = [c \in Clientes |-> c]
    /\ filtro_lineas = [c \in Clientes |-> {}]
    /\ aviso = [c \in Clientes |-> IF c = 1 THEN "OK" ELSE ""]
    /\ sync_in_progress = [c \in Clientes |-> FALSE]
    /\ sync_counter = [c \in Clientes |-> 0]
    /\ pases = [c \in Clientes |-> <<>>]
    /\ kpi = [c \in Clientes |-> Publica(KpiInicial, QKpis(ItemsContados, 1, {}))]
    /\ data_pendientes = [c \in Clientes |-> QPend(ItemsContados, 1, {})]
    /\ data_diferencias = [c \in Clientes |-> QDif(ItemsContados, 1, {})]
    /\ lbl_sync = [c \in Clientes |-> "Sincronizado"]
    /\ solicitud = [c \in Clientes |-> FALSE]

\* Counting by the teams at their terminals
Conteo(c) ==
    \/ \E txt \in CodigoInputs, r \in ResultadosBD, respuesta \in BOOLEAN :
            BuscarProducto(c, txt, r, respuesta)
    \/ CerrarDialogo(c)
    \/ \E cant_str \in CantidadInputs, r \in ResultadosBD : PreSave(c, cant_str, r)
    \/ Sumar(c)
    \/ Reemplazar(c)
    \/ \E e \in Equipos : SeleccionarEquipo(c, e)
    \/ \E i \in 1..MaxHilos, r \in ResultadosBD : HiloUpdate(c, i, r)
    \/ \E i \in 1..MaxHilos, r \in ResultadosBD : HiloInsert(c, i, r)
    \/ \E i \in 1..MaxHilos : HiloExito(c, i)

\* Operations on the session: selection, extra items, stock refresh
Gestion(c) ==
    \/ \E s \in Sesiones : SeleccionarSesion(c, s)
    \/ \E lin \in Lineas, r \in ResultadosBD : ConfirmarAlta(c, lin, r)
    \/ AbrirActualizarStock(c)
    \/ \E mapa \in MapasStock, r \in ResultadosBD : CargarYActualizar(c, mapa, r)

Next == \E c \in Clientes : Conteo(c)

Init == InitConteo /\ ops = MaxOps

Spec == Init /\ [][Next]_vars

NextGestion == \E c \in Clientes : Conteo(c) \/ Gestion(c)

InitGestion == InitConteo /\ ops = MaxOpsGestion

SpecGestion == InitGestion /\ [][NextGestion]_vars

\* Texts for the code entry: every text of up to MaxLenCodigo characters
\* over lower case, upper case, blank and sharp s, and texts around the
\* length limit
Repite(ch, n) == [i \in 1..n |-> ch]

TextosCodigo ==
    UNION {[1..n -> {"a", "B", " ", "ß"}] : n \in 0..MaxLenCodigo}
    \cup {Repite("a", MAX_CODIGO), Repite("a", MAX_CODIGO + 1),
          <<" ">> \o Repite("a", MAX_CODIGO) \o <<" ">>,
          Repite("ß", MAX_CODIGO \div 2), Repite("ß", (MAX_CODIGO \div 2) + 1)}

\* Lookups at terminal 1 with any of these texts; an alta window that opens
\* is closed again
NextCodigo ==
    \/ \E txt \in TextosCodigo, r \in ResultadosBD, respuesta \in BOOLEAN :
            BuscarProducto(1, txt, r, respuesta)
    \/ CerrarDialogo(1)

InitCodigo == InitConteo /\ ops = MaxOpsCodigo

SpecCodigo == InitCodigo /\ [][NextCodigo]_vars

\* Texts for the quantity entry: plain, with comma or point, zero, negative,
\* the limit and just above it, not a number, empty
TextosCantidad ==
    {<<"2">>, <<"2", ",", "5">>, <<"0">>, <<"-", "0">>, <<"-", "1">>, <<"-", "0", ".", "0", "1">>,
     Repite("9", 6), Repite("9", 6) \o <<".", "0", "1">>, <<"1">> \o Repite("0", 6),
     <<"x">>, <<"1", ".", "2", ".", "3">>, <<>>}

\* Texts for the code entry, rejected ones among them
TextosCodigoCortos == CodigoInputs \cup {<<>>, Repite("a", MAX_CODIGO + 1)}

\* Lookups and submissions at terminal 1 with these texts, and the save
\* threads they start
NextValidar ==
    \/ \E txt \in TextosCodigoCortos, r \in ResultadosBD, respuesta \in BOOLEAN :
            BuscarProducto(1, txt, r, respuesta)
    \/ CerrarDialogo(1)
    \/ \E cant_str \in TextosCantidad, r \in ResultadosBD : PreSave(1, cant_str, r)
    \/ \E i \in 1..MaxHilos, r \in ResultadosBD : HiloUpdate(1, i, r)
    \/ \E i \in 1..MaxHilos, r \in ResultadosBD : HiloInsert(1, i, r)
    \/ \E i \in 1..MaxHilos : HiloExito(1, i)

InitValidar == InitConteo /\ ops = MaxOpsValidar

SpecValidar == InitValidar /\ [][NextValidar]_vars

\* The steps of the aggregation pass threads of one instance
Pase(c) ==
    \/ \E i \in 1..MaxPases : PaseInicio(c, i)
    \/ \E i \in 1..MaxPases, r \in ResultadosBD : PaseKpis(c, i, r)
    \/ \E i \in 1..MaxPases, r \in ResultadosBD : PasePend(c, i, r)
    \/ \E i \in 1..MaxPases, r \in ResultadosBD : PaseDif(c, i, r)
    \/ \E i \in 1..MaxPases, r \in ResultadosBD : PasePublicar(c, i, r)

\* The scheduler and the aggregation passes of one instance
Sync(c) ==
    \/ LoopWhile(c)
    \/ LoopTick(c)
    \/ TickSyncUpdate(c)
    \/ Refrescar(c)
    \/ \E s \in Sesiones : SeleccionarSesion(c, s)
    \/ \E sel \in SUBSET Lineas : AplicarFiltro(c, sel)
    \/ Pase(c)
    \/ DestroyInicio(c)
    \/ DestroyFin(c)

\* One freshly started instance (no session selected) on the counted store,
\* with its own first counts as the concurrent writers
InitSync == InitContado /\ InitApp /\ ops = MaxOpsSync

\* Lookups and submissions at the counting form and the save threads they
\* start (a duplicate dialog, once opened, is left open)
Envio(c) ==
    \/ \E txt \in CodigoInputs, r \in ResultadosBD, respuesta \in BOOLEAN :
            BuscarProducto(c, txt, r, respuesta)
    \/ \E cant_str \in CantidadInputs, r \in ResultadosBD : PreSave(c, cant_str, r)
    \/ \E i \in 1..MaxHilos, r \in ResultadosBD : HiloUpdate(c, i, r)
    \/ \E i \in 1..MaxHilos, r \in ResultadosBD : HiloInsert(c, i, r)
    \/ \E i \in 1..MaxHilos : HiloExito(c, i)

NextSync == Sync(1) \/ Envio(1)

SpecSync == InitSync /\ [][NextSync]_vars

\* The teams submit counts at their terminals and answer no dialog; the
\* session and the team of every instance stay as selected.
NextEnvios == \E c \in Clientes : Envio(c)

InitEnvios == InitConteo /\ ops = MaxOps

SpecEnvios == InitEnvios /\ [][NextEnvios]_vars

\* Stores for the aggregation queries: MaxItemsKpi rows, each one of
\* a qualifying item of session 1 (pending, short, exact, over), a counted
\* extra of session 1, or a counted item of session 2
FilasKpi(i) ==
    LET cod == IF i % 2 = 1 THEN CodA ELSE CodB
        lin == IF i % 2 = 1 THEN "L1" ELSE "L2"
        Fila(s, stock, cant) ==
            Generada([NuevoItem(s, cod, lin, stock) EXCEPT
                        !.conteo_fisico = cant,
                        !.fecha_conteo = IF cant > 0 THEN 1 ELSE 0,
                        !.ultimo_equipo_id = IF cant > 0 THEN 1 ELSE 0])
    IN  { Fila(1, 100, 0), Fila(1, 100, 50), Fila(1, 100, 100), Fila(1, 100, 150),
          Fila(1, 0, 50), Fila(2, 100, 100) }

RECURSIVE StoresKpi(_)
StoresKpi(n) ==
    IF n = 0 THEN {<<>>}
    ELSE {Append(its, r) : its \in StoresKpi(n - 1), r \in FilasKpi(n)}

\* Row i of a long store of session 1: code P000, P001, ..., lines alternate
FilaLarga(i, stock, cant) ==
    LET Cifras == <<"0", "1", "2", "3", "4", "5", "6", "7", "8", "9">>
        cod == <<"P", Cifras[((i \div 100) % 10) + 1], Cifras[((i \div 10) % 10) + 1],
                 Cifras[(i % 10) + 1]>>
    IN  Generada([NuevoItem(1, cod, IF i % 2 = 1 THEN "L1" ELSE "L2", stock) EXCEPT
                    !.conteo_fisico = cant,
                    !.fecha_conteo = IF cant > 0 THEN 1 ELSE 0,
                    !.ultimo_equipo_id = IF cant > 0 THEN 1 ELSE 0])

\* Long stores, around the display limit of the lists: n rows that are all
\* pending (tipo "pend") or all counted short (tipo "dif"), except that row 1
\* is of the other kind and row 2 is an extra item
StoreLargo(n, tipo) ==
    [i \in 1..n |->
        IF i = 1 THEN (IF tipo = "pend" THEN FilaLarga(i, 100, 50) ELSE FilaLarga(i, 100, 0))
        ELSE IF i = 2 THEN (IF tipo = "pend" THEN FilaLarga(i, 0, 0) ELSE FilaLarga(i, 0, 50))
        ELSE IF tipo = "pend" THEN FilaLarga(i, 100, 0) ELSE FilaLarga(i, 100, 50)]

StoresLargos ==
    {StoreLargo(n, tipo) : n \in LIMITE..(LIMITE + 2 + MaxExceso), tipo \in {"pend", "dif"}}

\* Instance 1 has selected session 1, its first pass failed, and it has just
\* applied a line filter: the pass that _refresh_all started is in flight.
InitKpi ==
    /\ items \in StoresKpi(MaxItemsKpi) \cup StoresLargos
    /\ historial = <<>>
    /\ reloj = 2
    /\ escritor = [k \in DOMAIN items |-> 0]
    /\ InitForma
    /\ InitLoop
    /\ sesion_id = [c \in Clientes |-> IF c = 1 THEN 1 ELSE 0]
    /\ equipo_id = [c \in Clientes |-> 1]
    /\ filtro_lineas \in {[c \in Clientes |-> IF c = 1 THEN sel ELSE {}] : sel \in {{}, {"L1"}}}
    /\ aviso = [c \in Clientes |-> ""]
    /\ sync_in_progress = [c \in Clientes |-> c = 1]
    /\ sync_counter = [c \in Clientes |-> IF c = 1 THEN 2 ELSE 0]
    /\ pases = [c \in Clientes |-> IF c = 1 THEN <<NuevoPase>> ELSE <<>>]
    /\ kpi = [c \in Clientes |-> KpiInicial]
    /\ data_pendientes = [c \in Clientes |-> <<>>]
    /\ data_diferencias = [c \in Clientes |-> <<>>]
    /\ lbl_sync = [c \in Clientes |-> IF c = 1 THEN "Error sync" ELSE ""]
    /\ solicitud = [c \in Clientes |-> c = 1]
    /\ ops = 0

NextKpi == Pase(1)

SpecKpi == InitKpi /\ [][NextKpi]_vars

---------------------------------------------------------------------------
(* Properties of count submission *)

\* the rows the UPDATE of instance c's thread h is about to write
Destino(c, h) ==
    {k \in DOMAIN items : items[k].sesion_id = sesion_id[c] /\ items[k].codigo = h.cod}

\* C1: for an item already counted (stored conteo_fisico > 0), a committed
\* SUMA of quantity q leaves conteo_fisico = stored value + q, and a
\* committed REEMPLAZO leaves conteo_fisico = q; the stored value is the one
\* the UPDATE overwrites, q = cant - cant_ant for SUMA.
C1_SumaReemplazoExactos ==
    [][\A c \in Clientes, i \in 1..MaxHilos :
        HiloUpdate(c, i, "ok") =>
            LET h == hilos[c][i] IN
            \A k \in Destino(c, h) :
                items[k].conteo_fisico > 0 =>
                    /\ h.tipo = "SUMA" =>
                         items'[k].conteo_fisico = items[k].conteo_fisico + (h.cant - h.cant_ant)
                    /\ h.tipo = "REEMPLAZO" =>
                         items'[k].conteo_fisico = h.cant]_vars

C3_UpdateAtomico ==
    [][\A c \in Clientes, i \in 1..MaxHilos :
        HiloUpdate(c, i, "ok") =>
            \A k \in Destino(c, hilos[c][i]) :
                \/ items[k].conteo_fisico = hilos[c][i].cant_ant
                \/ escritor[k] = c]_vars

\* C7: in every store state diferencia = conteo_fisico - stock_sistema
C7_DiferenciaDerivada ==
    \A k \in DOMAIN items :
        items[k].diferencia = items[k].conteo_fisico - items[k].stock_sistema

\* C7 witness: item B was counted (2.00) and then its stock was refreshed
\* from a spreadsheet (0.50)
C7_Witness ==
    \E k \in DOMAIN items :
        /\ items[k].codigo = CodB /\ items[k].conteo_fisico = 200
        /\ items[k].stock_sistema = 50 /\ items[k].diferencia = 150

\* C10: when a submission is made, a cross-team conflict has been flagged for
\* the item exactly if the item is counted and its ultimo_equipo_id is not
\* the submitting team, and the prompt showed the team, quantity and
\* timestamp stored on the item.
C10_ConflictoExacto ==
    [][\A c \in Clientes, cant_str \in CantidadInputs :
        ( /\ PreSave(c, cant_str, "ok")
          /\ producto_actual[c].codigo # <<>>
          /\ validate_cantidad(cant_str).ok
          /\ Existe(c) # <<>> )
        => LET p == Existe(c)[1] IN
           /\ conflicto[c].hay <=> (p.conteo_fisico > 0 /\ p.ultimo_equipo_id # equipo_id[c])
           /\ conflicto[c].hay => conflicto[c] = Conflicto(p)]_vars

---------------------------------------------------------------------------
(* Properties of the scheduler and the aggregation *)

\* C4: at most one aggregation pass is in flight in an instance, and a
\* _sync_update call made while sync_in_progress is set starts no pass.
C4_UnSoloPase ==
    [][\A c \in Clientes :
        /\ Len(pases'[c]) <= 1
        /\ sync_in_progress[c] => Len(pases'[c]) <= Len(pases[c])]_vars

\* C4 witness: two timer ticks are queued while a pass is reading the store
C4_Witness ==
    /\ after_cola[1] = 2
    /\ sync_in_progress[1]
    /\ Len(pases[1]) = 1 /\ pases[1][1].pc = "pend"

\* C5: every transition to RUNNING is followed by a transition back to IDLE.
\* Only the finally clause of a pass thread clears sync_in_progress, so the
\* flag can be cleared again only if, whenever it is set, a pass thread of
\* the instance is still alive.
C5_VuelveAIdle == \A c \in Clientes : sync_in_progress[c] => pases[c] # <<>>

\* C6: a manual refresh of the selected session is never dropped: if a pass
\* is in flight while the request is outstanding, that pass has yet to read
\* the store, so the recompute it publishes is later than the request.
C6_RefrescoNoSePierde ==
    \A c \in Clientes :
        (solicitud[c] /\ pases[c] # <<>>) =>
            \E i \in DOMAIN pases[c] : pases[c][i].pc \in {"inicio", "kpis"}

\* the qualifying items of the session and filter selected in instance c
Califican(c) ==
    {k \in DOMAIN items :
        /\ items[k].sesion_id = sesion_id[c]
        /\ filtro_lineas[c] = {} \/ items[k].linea \in filtro_lineas[c]
        /\ items[k].stock_sistema > 0}

ContadosDe(c) == {k \in Califican(c) : items[k].conteo_fisico > 0}

ExactosDe(c) == {k \in ContadosDe(c) : items[k].conteo_fisico = items[k].stock_sistema}

\* t (tenths of a percent) is num / den * 100 to one decimal
EsPorcentaje(t, num, den) ==
    LET d == t * den - 1000 * num IN (IF d < 0 THEN 0 - d ELSE d) * 2 <= den

\* C8: the pass counts total = items with stock_sistema > 0 of the session
\* and filter, contados = those with conteo_fisico > 0, and publishes
\* avance = contados / total * 100 and exactitud = exactos / contados * 100;
\* items with stock_sistema = 0 are in neither count.
C8_Kpis ==
    LET n == Cardinality(Califican(1))
        m == Cardinality(ContadosDe(1))
        e == Cardinality(ExactosDe(1))
    IN
    /\ \A i \in DOMAIN pases[1] :
          pases[1][i].pc \in {"pend", "dif", "movs"} =>
              /\ pases[1][i].kpis.total = n
              /\ pases[1][i].kpis.contados = m
              /\ pases[1][i].kpis.exactos = e
    /\ lbl_sync[1] = "Sincronizado" =>
          /\ kpi[1].total = n
          /\ n > 0 => EsPorcentaje(kpi[1].avance, m, n) /\ kpi[1].pendientes = n - m
          /\ m > 0 => EsPorcentaje(kpi[1].exactitud, e, m)

\* C8 witness: five qualifying items, two counted, one of them exact:
\* 40.0% and 50.0% are published
C8_Witness ==
    /\ lbl_sync[1] = "Sincronizado"
    /\ Cardinality(Califican(1)) = 5
    /\ Cardinality(ContadosDe(1)) = 2
    /\ Cardinality(ExactosDe(1)) = 1
    /\ kpi[1].avance = 400
    /\ kpi[1].exactitud = 500

\* C9: the published avance is 0 when the pass found no qualifying item, and
\* the published exactitud is 0 when it found none counted (total is
\* published by every pass; pendientes = total means none counted).
C9_PorcentajesCero ==
    \A c \in Clientes :
        /\ kpi[c].total = 0 => kpi[c].avance = 0 /\ kpi[c].exactitud = 0
        /\ (kpi[c].total > 0 /\ kpi[c].pendientes = kpi[c].total) => kpi[c].exactitud = 0

---------------------------------------------------------------------------
(* Properties of the history and of the store operations *)

\* the history rows of session s
MovsDe(hist, s) == SelectSeq(hist, LAMBDA m : m.sesion_id = s)

\* C11: the history is append-only and one-to-one with successful
\* submissions: every step keeps the existing rows as they are and adds at
\* most one; a row is added exactly by a save thread whose UPDATE has run and
\* whose INSERT succeeds, it carries the thread's code, action kind,
\* quantity-before and quantity-after (and the session and team of the
\* instance), and that thread inserts no second row; so the number of rows of
\* a session never decreases.
C11_HistorialSoloCrece ==
    [][/\ Len(historial') \in {Len(historial), Len(historial) + 1}
       /\ SubSeq(historial', 1, Len(historial)) = historial
       /\ \A s \in Sesiones : Len(MovsDe(historial', s)) >= Len(MovsDe(historial, s))
       /\ Len(historial') = Len(historial) + 1 =>
             \E c \in Clientes, i \in 1..MaxHilos :
                 /\ i \in DOMAIN hilos[c]
                 /\ hilos[c][i].pc = "insert"
                 /\ hilos'[c][i].pc = "exito"
                 /\ historial'[Len(historial')] =
                        NuevoMovimiento(sesion_id[c], hilos[c][i].cod, equipo_id[c],
                                        hilos[c][i].tipo, hilos[c][i].cant_ant,
                                        hilos[c][i].cant, reloj)
       /\ \A c \in Clientes, i \in 1..MaxHilos :
             HiloInsert(c, i, "ok") => Len(historial') = Len(historial) + 1]_vars

\* C11 witness: a SUMA submission has added its row after the first count's
\* row, and the stock of the session has been refreshed since
C11_Witness ==
    /\ Len(historial) >= 2
    /\ historial[1].tipo_accion = "NUEVO"
    /\ historial[Len(historial)].tipo_accion = "SUMA"
    /\ \E k \in DOMAIN items : items[k].stock_sistema = 300

\* C12: when the INSERT of a submission fails after its UPDATE has committed,
\* the item is not rolled back, no history row is added, the submission never
\* reaches its success report, and the failure is shown to the operator.
C12_FalloParcialInformado ==
    [][\A c \in Clientes, i \in 1..MaxHilos :
        (HiloInsert(c, i, "error") /\ sesion_id[c] # 0) =>
            /\ items' = items
            /\ historial' = historial
            /\ hilos'[c] = Quitar(hilos[c], i)
            /\ aviso'[c] = "Error"]_vars

\* C13: in every store state a session holds at most one item per code
\* (creating an extra item whose code the session already has inserts
\* nothing).
C13_UnItemPorCodigo ==
    \A k1, k2 \in DOMAIN items :
        (items[k1].sesion_id = items[k2].sesion_id /\ items[k1].codigo = items[k2].codigo)
            => k1 = k2

\* C14: a stock refresh changes only stock_sistema (and the derived
\* diferencia) of the items of the session its window was opened for: no row
\* is added or removed, every row keeps its session, code, line,
\* conteo_fisico, novedad, fecha_conteo and ultimo_equipo_id, the rows of
\* other sessions are unchanged, and so is the history.
C14_SoloStock ==
    [][\A c \in Clientes, mapa \in MapasStock :
        CargarYActualizar(c, mapa, "ok") =>
            /\ historial' = historial
            /\ DOMAIN items' = DOMAIN items
            /\ \A k \in DOMAIN items :
                  /\ items'[k].sesion_id = items[k].sesion_id
                  /\ items'[k].codigo = items[k].codigo
                  /\ items'[k].linea = items[k].linea
                  /\ items'[k].conteo_fisico = items[k].conteo_fisico
                  /\ items'[k].novedad = items[k].novedad
                  /\ items'[k].fecha_conteo = items[k].fecha_conteo
                  /\ items'[k].ultimo_equipo_id = items[k].ultimo_equipo_id
                  /\ items[k].sesion_id # vstock[c] => items'[k] = items[k]]_vars

\* C14 witness: item A of session 1, counted 1.00 by team 1, has had its
\* stock refreshed to 3.00 while item A of session 2 kept stock 0
C14_Witness ==
    /\ \E k \in DOMAIN items :
          /\ items[k].sesion_id = 1 /\ items[k].codigo = CodA
          /\ items[k].stock_sistema = 300 /\ items[k].conteo_fisico = 100
          /\ items[k].ultimo_equipo_id = 1 /\ items[k].fecha_conteo = 1
    /\ \E k \in DOMAIN items :
          /\ items[k].sesion_id = 2 /\ items[k].codigo = CodA
          /\ items[k].stock_sistema = 0

---------------------------------------------------------------------------
(* Properties of the published lists *)

\* the rows of the store that a published list entry e may stand for
FilasDe(c, e) ==
    {k \in DOMAIN items :
        /\ items[k].sesion_id = sesion_id[c]
        /\ filtro_lineas[c] = {} \/ items[k].linea \in filtro_lineas[c]
        /\ items[k].codigo = e.codigo
        /\ items[k].stock_sistema = e.stock}

\* C15: the DiscrepancySet that a pass publishes holds at most 100 entries,
\* each a qualifying item (stock_sistema > 0) of the session and filter with
\* conteo_fisico # 0 and diferencia # 0; a counted extra item is never in it.
C15_DiferenciasCalifican ==
    lbl_sync[1] = "Sincronizado" =>
        /\ Len(data_diferencias[1]) <= LIMITE
        /\ \A j \in DOMAIN data_diferencias[1] :
              LET e == data_diferencias[1][j] IN
              /\ e.stock > 0
              /\ e.diferencia # 0
              /\ \E k \in FilasDe(1, e) :
                    items[k].conteo_fisico # 0 /\ items[k].diferencia = e.diferencia

\* the pending rows of the session and filter selected in instance c
PendientesDe(c) == {k \in Califican(c) : items[k].conteo_fisico = 0}

\* C16: the PendingSet that a pass publishes holds only items of the session
\* and filter with stock_sistema > 0 and conteo_fisico = 0, never more than
\* 100, and all of them when there are at most 100.
C16_PendientesCompletos ==
    lbl_sync[1] = "Sincronizado" =>
        /\ Len(data_pendientes[1]) <= LIMITE
        /\ \A j \in DOMAIN data_pendientes[1] :
              \E k \in PendientesDe(1) : k \in FilasDe(1, data_pendientes[1][j])
        /\ Cardinality(PendientesDe(1)) <= LIMITE =>
              /\ Len(data_pendientes[1]) = Cardinality(PendientesDe(1))
              /\ \A k \in PendientesDe(1) :
                    \E j \in DOMAIN data_pendientes[1] :
                        k \in FilasDe(1, data_pendientes[1][j])

\* C16 witness: a store with more than 100 pending items of which exactly
\* 100 are published, next to a counted item and an extra item that are not
C16_Witness ==
    /\ lbl_sync[1] = "Sincronizado"
    /\ Cardinality(PendientesDe(1)) > LIMITE
    /\ Len(data_pendientes[1]) = LIMITE
    /\ \E k \in DOMAIN items : items[k].sesion_id = 1 /\ items[k].stock_sistema = 0
    /\ \E k \in DOMAIN items : items[k].sesion_id = 1 /\ items[k].conteo_fisico > 0

\* C17: what one pass publishes describes one single store state.  In any
\* one store state the pending KPI (total - counted) is the number of pending
\* qualifying items, which is the size of the PendingSet when that is under
\* the display limit, and the qualifying entries of the DiscrepancySet are
\* among the counted items; so a pass whose queries all ran for the same
\* session and filter publishes values that satisfy both, also when
\* submissions commit while it runs.
C17_UnSoloEstado ==
    [][\A c \in Clientes, i \in 1..MaxPases :
        (PasePublicar(c, i, "ok") /\ Cardinality(pases[c][i].params) = 1) =>
            LET p == pases[c][i] IN
            /\ data_pendientes'[c] = p.data_pend
            /\ data_diferencias'[c] = p.data_dif
            /\ Len(p.data_pend) < LIMITE =>
                  p.kpis.total - p.kpis.contados = Len(p.data_pend)
            /\ Len(p.data_dif) < LIMITE =>
                  Len(SelectSeq(p.data_dif, LAMBDA e : e.stock > 0)) <= p.kpis.contados]_vars

\* a query of pass thread i of instance c fails
FallaConsulta(c, i) ==
    \/ PaseKpis(c, i, "error")
    \/ PasePend(c, i, "error")
    \/ PaseDif(c, i, "error")
    \/ PasePublicar(c, i, "error")

\* C18: when a query of a pass fails, the displayed KPI values and the cached
\* PendingSet and DiscrepancySet stay exactly as they were, the status label
\* reads "Error sync", the pass thread ends and sync_in_progress is released.
C18_FalloConservaSnapshot ==
    [][\A c \in Clientes, i \in 1..MaxPases :
        FallaConsulta(c, i) =>
            /\ kpi' = kpi
            /\ data_pendientes' = data_pendientes
            /\ data_diferencias' = data_diferencias
            /\ lbl_sync'[c] = "Error sync"
            /\ pases'[c] = Quitar(pases[c], i)
            /\ ~sync_in_progress'[c]]_vars

\* C18 witness: a pass has published a snapshot with a pending item, and a
\* later pass has failed and left it on display
C18_Witness ==
    /\ lbl_sync[1] = "Error sync"
    /\ kpi[1].total > 0
    /\ data_pendientes[1] # <<>>
    /\ pases[1] = <<>>
    /\ ~sync_in_progress[1]

---------------------------------------------------------------------------
(* Properties of shutdown *)

---------------------------------------------------------------------------
(* Properties of concurrent first counts *)

\* C20: when two instances submit first counts for the same never-counted
\* item, the submission whose UPDATE commits second (the row was last written
\* by another instance) is still a NUEVO submission and succeeds, and its
\* UPDATE leaves exactly its own state: conteo_fisico is its quantity (not
\* the sum with the stored one) and ultimo_equipo_id is the team of its
\* instance; its history row is NUEVO with cantidad_anterior 0.
C20_UltimoUpdateGana ==
    [][\A c \in Clientes, i \in 1..MaxHilos :
        /\ (HiloUpdate(c, i, "ok") /\ hilos[c][i].cant_ant = 0) =>
              LET h == hilos[c][i] IN
              \A k \in Destino(c, h) :
                  (escritor[k] \notin {0, c} /\ items[k].conteo_fisico > 0) =>
                      /\ h.tipo = "NUEVO"
                      /\ items'[k].conteo_fisico = h.cant
                      /\ items'[k].ultimo_equipo_id = equipo_id[c]
                      /\ escritor'[k] = c
                      /\ hilos'[c][i].pc = "insert"
        /\ (HiloInsert(c, i, "ok") /\ sesion_id[c] # 0 /\ hilos[c][i].cant_ant = 0) =>
              /\ Len(historial') = Len(historial) + 1
              /\ historial'[Len(historial')].tipo_accion = "NUEVO"
              /\ historial'[Len(historial')].cantidad_anterior = 0
              /\ historial'[Len(historial')].cantidad_resultante = hilos[c][i].cant]_vars

\* C20 witness: instances 1 and 2, with different teams selected, both
\* submitted a NUEVO count of item B from 0 and both UPDATEs have committed;
\* the item holds the quantity and team of the instance that wrote last
C20_Witness ==
    /\ equipo_id[1] # equipo_id[2]
    /\ \A c \in Clientes :
          \E i \in DOMAIN hilos[c] :
              /\ hilos[c][i].cod = CodB /\ hilos[c][i].tipo = "NUEVO"
              /\ hilos[c][i].cant_ant = 0 /\ hilos[c][i].cant = 200
              /\ hilos[c][i].pc \in {"insert", "exito"}
    /\ \E k \in DOMAIN items :
          /\ items[k].sesion_id = 1 /\ items[k].codigo = CodB
          /\ items[k].conteo_fisico = 200
          /\ escritor[k] # 0
          /\ items[k].ultimo_equipo_id = equipo_id[escritor[k]]

---------------------------------------------------------------------------
(* Properties of validation and of failures in a submission *)

\* C21: a store failure during a submission is shown to the operator: when
\* the SELECT of _pre_save fails for a looked-up product and a valid
\* quantity, or the UPDATE of the save thread fails, an error message is
\* shown.
C21_FalloMostrado ==
    [][\A c \in Clientes :
        /\ \A cant_str \in CantidadInputs :
              ( /\ PreSave(c, cant_str, "error")
                /\ producto_actual[c].codigo # <<>>
                /\ validate_cantidad(cant_str).ok )
              => aviso'[c] = "Error"
        /\ \A i \in 1..MaxHilos :
              HiloUpdate(c, i, "error") => aviso'[c] = "Error"]_vars

\* C22: validate_codigo is idempotent on the texts it accepts: every code
\* that a lookup obtained from an accepted text, and that the form or the
\* alta window now holds, is itself accepted (not empty, at most 50
\* characters) and validates to the same code.
C22_CodigoIdempotente ==
    \A c \in Clientes :
        LET cod == IF dlg[c].tipo = "alta" THEN dlg[c].cod ELSE producto_actual[c].codigo IN
        cod # <<>> =>
            /\ validate_codigo(cod).ok
            /\ validate_codigo(cod).val = cod
            /\ Len(cod) <= MAX_CODIGO

\* C22 witness: the text of 25 sharp s was accepted as the 50-character code
\* of an item that is not in the session, and the alta window holds it
C22_Witness ==
    /\ dlg[1].tipo = "alta"
    /\ dlg[1].cod = Repite("S", MAX_CODIGO)

\* the text is not a number, or is one below 0 or above 999999
CantidadRechazable(cant_str) ==
    LET f == ParseFloat(ReplaceComa(cant_str)) IN
    ~f.ok \/ f.val < 0 \/ f.val > MAX_CANTIDAD * 100

\* the text is empty after trimming or longer than 50 characters
CodigoRechazable(txt) == Strip(txt) = <<>> \/ Len(Upper(Strip(txt))) > MAX_CODIGO

\* C23: a submission rejected by the validator changes nothing.  A lookup
\* with a rejected code ends with the validator's message whatever the store
\* would answer, and leaves the form as it was; a submission with a rejected
\* quantity starts no save thread and opens no dialog, so no item is updated
\* and no history row is added; the quantities 0 and 999999 are accepted and
\* go on to the store.
C23_RechazoSinCambios ==
    [][/\ \A txt \in TextosCodigoCortos, r \in ResultadosBD, respuesta \in BOOLEAN :
             ( /\ BuscarProducto(1, txt, r, respuesta)
               /\ sesion_id[1] # 0 /\ equipo_id[1] # 0
               /\ CodigoRechazable(txt) )
             => /\ aviso'[1] \in {"Codigo vacio", "Codigo muy largo"}
                /\ UNCHANGED <<storeVars, producto_actual, ventana_abierta, dlg, conflicto, hilos>>
       /\ \A cant_str \in TextosCantidad, r \in ResultadosBD :
             ( /\ PreSave(1, cant_str, r)
               /\ producto_actual[1].codigo # <<>> )
             => IF CantidadRechazable(cant_str)
                THEN /\ aviso'[1] \in {"Cantidad invalida", "Cantidad negativa",
                                       "Cantidad muy grande"}
                     /\ UNCHANGED <<storeVars, ventana_abierta, dlg, hilos>>
                ELSE r = "ok" =>
                     \/ /\ Len(hilos'[1]) = Len(hilos[1]) + 1
                        /\ hilos'[1][Len(hilos'[1])].cant = ParseFloat(ReplaceComa(cant_str)).val
                     \/ /\ dlg'[1].tipo = "duplicado"
                        /\ dlg'[1].cant_nueva = ParseFloat(ReplaceComa(cant_str)).val]_vars

\* C23 witness: the quantity 999999 was accepted and stored on item B, the
\* quantity 1000000 entered next was rejected, and the history holds only
\* the row it started with
C23_Witness ==
    /\ aviso[1] = "Cantidad muy grande"
    /\ \E k \in DOMAIN items :
          items[k].codigo = CodB /\ items[k].conteo_fisico = MAX_CANTIDAD * 100
    /\ Len(historial) = 1
    /\ \E i \in DOMAIN hilos[1] : hilos[1][i].pc = "insert"

---------------------------------------------------------------------------
(* Properties relating the history to the items *)

\* C24: the history row of a committed submission has cantidad_anterior equal
\* to the conteo_fisico the item held immediately before the submission's
\* UPDATE, and cantidad_resultante equal to the value that UPDATE stored.
\* The row carries the thread's cant_ant and cant, so the UPDATE must find
\* cant_ant on the item and leave cant.
C24_AnteriorEsElAlmacenado ==
    [][\A c \in Clientes, i \in 1..MaxHilos :
        /\ HiloUpdate(c, i, "ok") =>
              \A k \in Destino(c, hilos[c][i]) :
                  /\ items[k].conteo_fisico = hilos[c][i].cant_ant
                  /\ items'[k].conteo_fisico = hilos[c][i].cant
        /\ (HiloInsert(c, i, "ok") /\ sesion_id[c] # 0) =>
              /\ historial'[Len(historial')].cantidad_anterior = hilos[c][i].cant_ant
              /\ historial'[Len(historial')].cantidad_resultante = hilos[c][i].cant]_vars

\* C25: declining the cross-team conflict prompt of a lookup aborts the
\* submission: the lookup leaves no product selected and writes nothing,
\* and a quantity entered while no product is selected is rejected with a
\* message, without starting a save thread or opening a dialog, so the item
\* and the history stay as they are.
C25_DeclinarAborta ==
    [][\A c \in Clientes :
        /\ \A txt \in CodigoInputs :
              ( /\ BuscarProducto(c, txt, "ok", FALSE)
                /\ sesion_id[c] # 0 /\ equipo_id[c] # 0
                /\ validate_codigo(txt).ok
                /\ LET prod == BuscarItems(items, sesion_id[c], validate_codigo(txt).val) IN
                   prod # <<>> /\ HayConflicto(prod[1], equipo_id[c]) )
              => /\ producto_actual'[c].codigo = <<>>
                 /\ conflicto'[c].hay
                 /\ UNCHANGED <<storeVars, hilos, dlg, ventana_abierta>>
        /\ \A cant_str \in CantidadInputs, r \in ResultadosBD :
              (PreSave(c, cant_str, r) /\ producto_actual[c].codigo = <<>>)
              => /\ aviso'[c] = "Busque un producto primero"
                 /\ UNCHANGED <<storeVars, hilos, dlg, ventana_abierta, producto_actual>>]_vars

\* C25 witness: team 2 looked up item A, counted by team 1, declined the
\* prompt and then pressed Enter on a quantity; nothing was written
C25_Witness ==
    /\ conflicto[2].hay /\ conflicto[2].equipo = 1
    /\ producto_actual[2].codigo = <<>>
    /\ aviso[2] = "Busque un producto primero"
    /\ hilos[2] = <<>>
    /\ items = ItemsContados
    /\ Len(historial) = 1

\* C26: a committed submission writes the item of the session in which its
\* old conteo_fisico was read, for the team selected then: the UPDATE and the
\* INSERT of a save thread run with that session and team, whatever the
\* operator selected in between.
C26_SesionDeLaLectura ==
    [][\A c \in Clientes, i \in 1..MaxHilos :
        /\ HiloUpdate(c, i, "ok") =>
              /\ sesion_id[c] = hilos[c][i].sesion_envio
              /\ equipo_id[c] = hilos[c][i].equipo_envio
              /\ \A k \in DOMAIN items :
                    items'[k] # items[k] => items[k].sesion_id = hilos[c][i].sesion_envio
        /\ (HiloInsert(c, i, "ok") /\ sesion_id[c] # 0) =>
              /\ historial'[Len(historial')].sesion_id = hilos[c][i].sesion_envio
              /\ historial'[Len(historial')].equipo_id = hilos[c][i].equipo_envio]_vars

---------------------------------------------------------------------------
(* Further properties of the aggregation pass *)

\* C27: the three queries whose results a pass publishes were all built
\* with one and the same session and line filter, even if the operator
\* selects another session or applies another filter while the pass runs.
C27_MismaSesionYFiltro ==
    [][\A c \in Clientes, i \in 1..MaxPases :
        PasePublicar(c, i, "ok") => Cardinality(pases[c][i].params) = 1]_vars

\* C28: in every result of q_kpis the counted items are split by the three
\* outcome counters, contados = exactos + faltantes + sobrantes, and
\* 0 <= contados <= total; the published pendientes (total - contados) is
\* never negative and the published avance lies between 0.0% and 100.0%.
C28_KpisParticion ==
    \A c \in Clientes :
        /\ \A i \in DOMAIN pases[c] :
              pases[c][i].pc \in {"pend", "dif", "movs"} =>
                  LET k == pases[c][i].kpis IN
                  /\ k.contados = k.exactos + k.faltantes + k.sobrantes
                  /\ 0 <= k.contados
                  /\ k.contados <= k.total
        /\ kpi[c].pendientes >= 0
        /\ kpi[c].pendientes <= kpi[c].total
        /\ kpi[c].avance >= 0
        /\ kpi[c].avance <= 1000

\* C28 witness: a published snapshot of five qualifying items with one
\* shortage, one overage, one exact match and two pending items
C28_Witness ==
    /\ lbl_sync[1] = "Sincronizado"
    /\ kpi[1].total = 5
    /\ kpi[1].faltantes = 1
    /\ kpi[1].sobrantes = 1
    /\ kpi[1].pendientes = 2
    /\ kpi[1].avance = 600

---------------------------------------------------------------------------
(* Submissions of quantity 0 and the history of an item *)

\* C29: an item is pending exactly when its stored conteo_fisico is 0,
\* whatever its history. A committed UPDATE of a submission of quantity 0
\* (NUEVO on a pending item, REEMPLAZO on a counted one) leaves
\* conteo_fisico = 0 and its INSERT appends a history row with
\* cantidad_resultante = 0; an item with conteo_fisico = 0 is listed by
\* q_pend (if it has stock) and not counted by q_kpis, also when it has
\* history rows; and the next submission for it is classified NUEVO with
\* cantidad_anterior 0 without opening the SUMA/REEMPLAZO dialog.
C29_CeroEsPendiente ==
    /\ [](\A k \in DOMAIN items :
              LET r == items[k]
                  pend == QPend(<<r>>, r.sesion_id, {})
                  kpis == QKpis(<<r>>, r.sesion_id, {})
              IN  /\ r.conteo_fisico = 0 =>
                        /\ kpis.contados = 0
                        /\ r.stock_sistema > 0 =>
                              pend = <<[codigo |-> r.codigo, stock |-> r.stock_sistema]>>
                  /\ r.conteo_fisico > 0 => pend = <<>>)
    /\ [][\A c \in Clientes :
            /\ \A i \in 1..MaxHilos :
                  /\ (HiloUpdate(c, i, "ok") /\ hilos[c][i].cant = 0) =>
                        /\ hilos[c][i].tipo \in {"NUEVO", "REEMPLAZO"}
                        /\ \A k \in Destino(c, hilos[c][i]) : items'[k].conteo_fisico = 0
                  /\ (HiloInsert(c, i, "ok") /\ hilos[c][i].cant = 0) =>
                        /\ Len(historial') = Len(historial) + 1
                        /\ historial'[Len(historial')].item_codigo = hilos[c][i].cod
                        /\ historial'[Len(historial')].cantidad_resultante = 0
            /\ \A cant_str \in CantidadInputs :
                  ( /\ PreSave(c, cant_str, "ok")
                    /\ producto_actual[c].codigo # <<>>
                    /\ validate_cantidad(cant_str).ok
                    /\ Existe(c) # <<>>
                    /\ Existe(c)[1].conteo_fisico = 0
                    /\ \E j \in DOMAIN historial :
                          /\ historial[j].sesion_id = Existe(c)[1].sesion_id
                          /\ historial[j].item_codigo = Existe(c)[1].codigo )
                  => /\ dlg'[c].tipo = "ninguno"
                     /\ Len(hilos'[c]) = Len(hilos[c]) + 1
                     /\ hilos'[c][Len(hilos'[c])].tipo = "NUEVO"
                     /\ hilos'[c][Len(hilos'[c])].cant_ant = 0]_vars

\* C29 witness: item A, counted 1.00 before, was replaced by 0 (its history
\* has the REEMPLAZO row), is stored with conteo_fisico 0, and the next
\* submission of 2.00 for it is in flight as a NUEVO
C29_Witness ==
    /\ \E k \in DOMAIN items :
          /\ items[k].sesion_id = 1 /\ items[k].codigo = CodA
          /\ items[k].conteo_fisico = 0
    /\ \E j \in DOMAIN historial :
          /\ historial[j].item_codigo = CodA /\ historial[j].tipo_accion = "REEMPLAZO"
          /\ historial[j].cantidad_resultante = 0
    /\ \E c \in Clientes : \E i \in DOMAIN hilos[c] :
          /\ hilos[c][i].cod = CodA /\ hilos[c][i].tipo = "NUEVO"
          /\ hilos[c][i].cant = 200 /\ hilos[c][i].cant_ant = 0

\* the newest history row of the item stored as items[k], 0 if it has none
UltimoMov(k) ==
    LET js == {j \in DOMAIN historial :
                  /\ historial[j].sesion_id = items[k].sesion_id
                  /\ historial[j].item_codigo = items[k].codigo}
    IN  IF js = {} THEN 0 ELSE CHOOSE j \in js : \A j2 \in js : j2 <= j

\* every UPDATE committed since the start has its history row (the clock
\* advances with each committed UPDATE) and no save thread is left
SinEnviosPendientes ==
    /\ \A c \in Clientes : hilos[c] = <<>>
    /\ reloj - 2 = Len(historial) - 1

\* C30: whenever no submission is in flight and no history INSERT has
\* failed, for every item with at least one history row the row appended
\* last has cantidad_resultante = the item's conteo_fisico and equipo_id =
\* the item's ultimo_equipo_id, also after submissions by several teams to
\* the same item.
C30_UltimoMovimientoCoincide ==
    SinEnviosPendientes =>
        \A k \in DOMAIN items :
            UltimoMov(k) # 0 =>
                /\ historial[UltimoMov(k)].cantidad_resultante = items[k].conteo_fisico
                /\ historial[UltimoMov(k)].equipo_id = items[k].ultimo_equipo_id

=============================================================================
